---- MODULE Spec2Model ----
(***************************************************************************)
(* A model of orangecontrib/text/import_documents.py: the reader registry, *)
(* the local and the remote scanner, and ImportDocuments.run() with its    *)
(* two reading phases, corpus assembly and metadata join.                  *)
(*                                                                         *)
(* A Python str is modelled as a sequence of one-character strings, so      *)
(* that suffixes, stems, lower-casing, glob matching and concatenation are *)
(* computed and not assumed.                                               *)
(***************************************************************************)
EXTENDS Integers, Sequences, FiniteSets, TLC

(***************************************************************************)
(* Bounds of the model.                                                    *)
(***************************************************************************)
\* at most this many files exist under the scan root
MaxFiles == 3

\* the files of the universe Files that a pipeline run may find under its root
RunFiles == 9

(***************************************************************************)
(* Strings.                                                                *)
(***************************************************************************)
Range(s) == {s[i] : i \in DOMAIN s}

RECURSIVE Flatten(_)
\* "".join(seq) of a sequence of strings
Flatten(ss) == IF ss = <<>> THEN <<>> ELSE Head(ss) \o Flatten(Tail(ss))

StartsWith(s, t) == Len(s) >= Len(t) /\ SubSeq(s, 1, Len(t)) = t

EndsWith(s, t) == Len(s) >= Len(t) /\ SubSeq(s, Len(s) - Len(t) + 1, Len(s)) = t

\* str.lower() on one character; the model's alphabet holds these capitals
LowerChar(c) ==
    CASE c = "A" -> "a"
      [] c = "B" -> "b"
      [] c = "T" -> "t"
      [] c = "X" -> "x"
      [] OTHER -> c

Lower(s) == [i \in DOMAIN s |-> LowerChar(s[i])]

RECURSIVE fnmatch(_, _)
\* fnmatch.fnmatch(name, pat) for patterns made of literals and "*"
\* (os.path.normcase is the identity on POSIX)
fnmatch(name, pat) ==
    IF pat = <<>> THEN name = <<>>
    ELSE IF Head(pat) = "*"
         THEN fnmatch(name, Tail(pat))
              \/ (name # <<>> /\ fnmatch(Tail(name), pat))
         ELSE name # <<>> /\ Head(name) = Head(pat)
              /\ fnmatch(Tail(name), Tail(pat))

\* any(fnmatch.fnmatch(fname.lower(), pattern) for pattern in patterns)
matches_any(fname, patterns) ==
    \E i \in DOMAIN patterns : fnmatch(Lower(fname), patterns[i])

(***************************************************************************)
(* pathlib, for relative POSIX paths (no drive, no root).                  *)
(***************************************************************************)
RECURSIVE SplitAt(_, _, _)
\* s.split(sep), with the piece being collected in cur
SplitAt(s, sep, cur) ==
    IF s = <<>> THEN <<cur>>
    ELSE IF Head(s) = sep THEN <<cur>> \o SplitAt(Tail(s), sep, <<>>)
    ELSE SplitAt(Tail(s), sep, Append(cur, Head(s)))

\* PurePath(path).parts: the components, empty ones and "." dropped
Parts(path) ==
    SelectSeq(SplitAt(path, "/", <<>>), LAMBDA c : c # <<>> /\ c # <<".">>)

\* PurePath(path).name
PathName(path) ==
    LET p == Parts(path) IN IF p = <<>> THEN <<>> ELSE p[Len(p)]

\* PurePath(path).parent.parts
ParentParts(path) ==
    LET p == Parts(path) IN IF p = <<>> THEN <<>> ELSE SubSeq(p, 1, Len(p) - 1)

\* name.rfind("."), 1-based; 0 when there is no dot
RFindDot(name) ==
    LET dots == {i \in DOMAIN name : name[i] = "."}
    IN IF dots = {} THEN 0 ELSE CHOOSE i \in dots : \A j \in dots : j <= i

\* PurePath(path).suffix: from the last dot of the name, unless that dot is the
\* first or the last character of the name
Suffix(path) ==
    LET name == PathName(path)
        i == RFindDot(name)
    IN IF 1 < i /\ i < Len(name) THEN SubSeq(name, i, Len(name)) ELSE <<>>

\* PurePath(path).stem
Stem(path) ==
    LET name == PathName(path)
        i == RFindDot(name)
    IN IF 1 < i /\ i < Len(name) THEN SubSeq(name, 1, i - 1) ELSE name

RECURSIVE LStripDots(_)
\* name.lstrip(".")
LStripDots(name) ==
    IF name # <<>> /\ Head(name) = "." THEN LStripDots(Tail(name)) ELSE name

\* "".join(PurePath(name).suffixes) for a bare file name: everything from the
\* first dot that follows the leading dots, nothing when the name ends in a dot
Suffixes(name) ==
    IF EndsWith(name, <<".">>) THEN <<>>
    ELSE LET body == LStripDots(name)
             dots == {i \in DOMAIN body : body[i] = "."}
         IN IF dots = {} THEN <<>>
            ELSE LET i == CHOOSE k \in dots : \A j \in dots : k <= j
                 IN SubSeq(body, i, Len(body))

\* os.path.join(a, b)
PathJoin(a, b) ==
    IF StartsWith(b, <<"/">>) THEN b
    ELSE IF a = <<>> \/ EndsWith(a, <<"/">>) THEN a \o b
    ELSE a \o <<"/">> \o b

(***************************************************************************)
(* The reader registry.  Registry (Orange.util) records every subclass of  *)
(* Reader under its class name, in the order the classes are defined.      *)
(***************************************************************************)
DefaultFormats ==
    << <<"d","o","c","x">>, <<"o","d","t">>, <<"t","x","t">>,
       <<"p","d","f">>, <<"x","m","l">> >>

Registry ==
    <<"TxtReader", "DocxReader", "OdtReader", "PdfReader", "XmlReader",
      "CsvMetaReader", "YamlMetaReader", "UrlReader">>

\* the class attribute ext of each registered reader
ReaderExt(reader) ==
    CASE reader = "TxtReader" -> << <<".","t","x","t">> >>
      [] reader = "DocxReader" -> << <<".","d","o","c","x">> >>
      [] reader = "OdtReader" -> << <<".","o","d","t">> >>
      [] reader = "PdfReader" -> << <<".","p","d","f">> >>
      [] reader = "XmlReader" -> << <<".","x","m","l">> >>
      [] reader = "CsvMetaReader" -> << <<".","c","s","v">> >>
      [] reader = "YamlMetaReader" -> << <<".","y","a","m","l">> >>
      [] reader = "UrlReader" -> << <<".","u","r","l">> >>

RECURSIVE get_reader_from_lower(_, _)
\* the loop of get_reader with the suffix lowercased before "ext in reader.ext"
get_reader_from_lower(ext, i) ==
    IF i > Len(Registry) THEN "Reader"
    ELSE IF Lower(ext) \in Range(ReaderExt(Registry[i])) THEN Registry[i]
    ELSE get_reader_from_lower(ext, i + 1)

RECURSIVE get_reader_from(_, _)
\* the loop of get_reader from registry position i on
get_reader_from(ext, i) ==
    IF i > Len(Registry) THEN "Reader"
    ELSE IF ext \in Range(ReaderExt(Registry[i])) THEN Registry[i]
    ELSE get_reader_from(ext, i + 1)

\* get_reader comparing the suffix without regard to case
get_reader_anycase(path) == get_reader_from(Lower(Suffix(path)), 1)

\* Reader.get_reader(path): the class of the reader returned
get_reader(path) == get_reader_from(Suffix(path), 1)

(***************************************************************************)
(* The files that may exist under the scan root, in the order the file     *)
(* system (or the remote listing) reports them.  A directory exists when a *)
(* file lies under it.                                                     *)
(***************************************************************************)
Files ==
    << [dir |-> <<>>, name |-> <<"c",".","t","x","t">>],
       [dir |-> <<>>, name |-> <<"m","e","t","a",".","c","s","v">>],
       [dir |-> <<>>, name |-> <<"m",".","y","m","l">>],
       [dir |-> << <<"c","a","t","A">> >>, name |-> <<"a",".","t","x","t">>],
       [dir |-> << <<"c","a","t","A">> >>, name |-> <<"g",".","d","o","c","x">>],
       [dir |-> << <<"c","a","t","A">> >>, name |-> <<"d",".","T","X","T">>],
       [dir |-> << <<"c","a","t","A">> >>,
        name |-> <<"i","n","f","o",".","y","a","m","l">>],
       [dir |-> << <<"c","a","t","B">> >>, name |-> <<"b",".","t","x","t">>],
       [dir |-> << <<".","h","i","d">> >>, name |-> <<"e",".","t","x","t">>],
       [dir |-> <<>>, name |-> <<"n","o","t","e","s",".","d","a","t">>],
       [dir |-> <<>>, name |-> <<".","z",".","t","x","t">>],
       [dir |-> << <<"c","a","t","A">>, <<".","h">> >>,
        name |-> <<"x",".","t","x","t">>],
       [dir |-> << <<".","h","i","d">>, <<"s","u","b">> >>,
        name |-> <<"y",".","t","x","t">>] >>

FileIds == 1..Len(Files)

RECURSIVE SetToSeq(_)
\* a set of numbers as the increasing sequence
SetToSeq(S) ==
    IF S = {} THEN <<>>
    ELSE LET m == CHOOSE x \in S : \A y \in S : x <= y
         IN <<m>> \o SetToSeq(S \ {m})

\* os.walk's filenames of directory d (its components below the top)
Filenames(fset, d) ==
    LET ids == SetToSeq({k \in fset : Files[k].dir = d})
    IN [i \in DOMAIN ids |-> Files[ids[i]].name]

\* os.walk's dirnames of directory d
Dirnames(fset, d) ==
    LET under == {k \in fset : Len(Files[k].dir) > Len(d)
                               /\ SubSeq(Files[k].dir, 1, Len(d)) = d}
        sub(k) == Files[k].dir[Len(d) + 1]
        firsts == {k \in under : \A j \in under : sub(j) = sub(k) => k <= j}
        ids == SetToSeq(firsts)
    IN [i \in DOMAIN ids |-> sub(ids[i])]

RECURSIVE walk_unpruned(_, _, _, _, _)
\* the walk with dirnames left as os.walk lists them
walk_unpruned(fset, dirpath, d, include_patterns, exclude_patterns) ==
    LET dirnames == Dirnames(fset, d)
        filenames == SelectSeq(Filenames(fset, d),
                               LAMBDA f : matches_any(f, include_patterns)
                                          /\ ~matches_any(f, exclude_patterns))
        here == [i \in DOMAIN filenames |-> PathJoin(dirpath, filenames[i])]
        below == [i \in DOMAIN dirnames |->
                    walk_unpruned(fset, PathJoin(dirpath, dirnames[i]),
                                  Append(d, dirnames[i]), include_patterns,
                                  exclude_patterns)]
    IN here \o Flatten(below)

RECURSIVE walk(_, _, _, _, _)
\* the body of scan's loop over os.walk(topdir), for the directory d whose
\* path is dirpath, followed by the walk of the subdirectories left in dirnames
walk(fset, dirpath, d, include_patterns, exclude_patterns) ==
    LET dirnames == SelectSeq(Dirnames(fset, d),
                              LAMBDA n : ~fnmatch(n, <<".","*">>))
        filenames == SelectSeq(Filenames(fset, d),
                               LAMBDA f : matches_any(f, include_patterns)
                                          /\ ~matches_any(f, exclude_patterns))
        here == [i \in DOMAIN filenames |-> PathJoin(dirpath, filenames[i])]
        below == [i \in DOMAIN dirnames |->
                    walk(fset, PathJoin(dirpath, dirnames[i]),
                         Append(d, dirnames[i]), include_patterns,
                         exclude_patterns)]
    IN here \o Flatten(below)

\* the default exclude_patterns of scan and scan_url
DefaultExclude == << <<".","*">> >>

\* ImportDocuments.scan(topdir, include_patterns)
scan(fset, topdir, include_patterns) ==
    walk(fset, topdir, <<>>, include_patterns, DefaultExclude)

RECURSIVE JoinSlash(_)
\* "/".join(filename)
JoinSlash(parts) ==
    IF Len(parts) = 1 THEN parts[1]
    ELSE parts[1] \o <<"/">> \o JoinSlash(Tail(parts))

\* ServerFiles(topdir).listfiles(): one tuple of components per file
listfiles(fset) ==
    LET ids == SetToSeq(fset)
    IN [i \in DOMAIN ids |-> Append(Files[ids[i]].dir, Files[ids[i]].name)]

\* ImportDocuments.scan_url(topdir, include_patterns); connected = FALSE is
\* the listing raising ConnectionError
scan_url(fset, topdir, include_patterns, connected) ==
    IF ~connected THEN <<>>
    ELSE LET files == listfiles(fset)
             all == [i \in DOMAIN files |-> topdir \o JoinSlash(files[i])]
         IN SelectSeq(all, LAMBDA p : matches_any(p, include_patterns)
                                      /\ ~matches_any(p, DefaultExclude))

\* the path under which the scan of startdir reports file k
PathOf(startdir, is_url_, k) ==
    IF is_url_ THEN startdir \o JoinSlash(Append(Files[k].dir, Files[k].name))
    ELSE PathJoin(IF Files[k].dir = <<>> THEN startdir
                  ELSE startdir \o JoinSlash(Files[k].dir), Files[k].name)

(***************************************************************************)
(* What the files hold.  A document's text is kept abstract; a metadata    *)
(* file's content is the table (csv) or the mapping (yaml) parsed from it. *)
(***************************************************************************)
\* Python's None
None == [none |-> TRUE]

\* a missing value of a pandas table
NaN == <<"nan">>

META_DATA_FILE_KEY == "Text file"

\* pd.read_csv of meta.csv: two rows share the key catA/a.txt
MetaCsv ==
    [columns |-> <<"Text file", "author">>,
     rows |-> << ("Text file" :> <<"c","a","t","A","/","a",".","t","x","t">>)
                   @@ ("author" :> <<"x">>),
                 ("Text file" :> <<"c",".","t","x","t">>)
                   @@ ("author" :> <<"y">>),
                 ("Text file" :> <<"c","a","t","A","/","a",".","t","x","t">>)
                   @@ ("author" :> <<"z">>) >>]

\* yaml.safe_load of catA/info.yaml: a mapping, one of whose keys is the name
\* of a corpus column
InfoYaml ==
    [keys |-> <<"Text file", "name">>,
     map |-> ("Text file" :> <<"c","a","t","B","/","b",".","t","x","t">>)
               @@ ("name" :> <<"n">>)]

\* the content a successful read_file leaves in self.content for file k
Content(k) ==
    CASE k = 2 -> MetaCsv
      [] k = 7 -> InfoYaml
      [] OTHER -> [text |-> k]

\* isinstance(content, dict)
IsDict(content) == "map" \in DOMAIN content

\* pd.DataFrame(content, index=[0]): one row, one column per key
DataFrameOfDict(content) ==
    [columns |-> content.keys, rows |-> <<content.map>>]

RECURSIVE UnionColumns(_, _)
\* the columns of pd.concat(dfs): each column once, in order of appearance
UnionColumns(dfs, seen) ==
    IF dfs = <<>> THEN seen
    ELSE UnionColumns(Tail(dfs),
             seen \o SelectSeq(Head(dfs).columns,
                               LAMBDA c : c \notin Range(seen)))

\* pd.concat(dfs): the rows stacked in order, absent cells missing
concat(dfs) ==
    LET cols == UnionColumns(dfs, <<>>)
        widen(df) == [i \in DOMAIN df.rows |->
                        [c \in Range(cols) |->
                            IF c \in Range(df.columns) THEN df.rows[i][c]
                            ELSE NaN]]
    IN [columns |-> cols,
        rows |-> Flatten([i \in DOMAIN dfs |-> widen(dfs[i])])]

(***************************************************************************)
(* Reader.read, Reader.make_text_data and UrlReader.read_file.             *)
(***************************************************************************)
\* Reader.make_text_data (replace_white_space is False for every reader that
\* run() creates).  directory.parts[-1] raises IndexError when the path has
\* no parent component.
make_text_data(path, ext, content) ==
    LET name == Stem(path)
        parts == ParentParts(path)
    IN IF parts = <<>>
       THEN [kind |-> "raise", exc |-> "IndexError"]
       ELSE [kind |-> "ok",
             text |-> [name |-> name, path |-> path, ext |-> ext,
                       category |-> IF parts[Len(parts)] = <<>>
                                    THEN <<"N","o","n","e">>
                                    ELSE parts[Len(parts)],
                       content |-> content]]

\* read_file of a reader of class reader on file k: the base class always
\* raises, a format reader raises when the file does not parse
read_file_ok(reader, parses) == reader # "Reader" /\ parses

\* the name of the temporary file NamedTemporaryFile(suffix=extension) makes
TempName(extension) == <<"t","m","p">> \o extension

\* UrlReader.read_file.  fetch: "open_fails" (redirects, urlopen or the
\* headers raise), "write_fails" (writing the temporary file raises), "ok";
\* suggested: the file name _suggest_filename derives for the response.
\* tmp_left: a temporary file was created and still exists at exit.
UrlReader_read_file(suggested, fetch, parses) ==
    IF fetch = "open_fails"
    THEN [ok |-> FALSE, tmp_made |-> FALSE, tmp_left |-> FALSE,
          delegate |-> "none"]
    ELSE LET extension == Suffixes(suggested)
             fname == TempName(extension)
         IN IF fetch = "write_fails"
            THEN [ok |-> FALSE, tmp_made |-> TRUE, tmp_left |-> TRUE,
                  delegate |-> "none"]
            ELSE LET reader == get_reader(fname)
                 IN IF read_file_ok(reader, parses)
                    THEN [ok |-> TRUE, tmp_made |-> TRUE, tmp_left |-> FALSE,
                          delegate |-> reader]
                    ELSE [ok |-> FALSE, tmp_made |-> TRUE, tmp_left |-> TRUE,
                          delegate |-> reader]

\* Reader.read of a reader of class reader made for path: (textdata, error),
\* or the exception make_text_data lets through.  extracted: read_file
\* returned without raising.
Reader_read(reader, path, content, extracted) ==
    IF ~extracted
    THEN [kind |-> "error", text |-> None, error |-> PathName(path),
          exc |-> ""]
    ELSE LET ext == IF reader = "UrlReader" THEN <<Suffix(path)>>
                    ELSE ReaderExt(reader)
             made == make_text_data(path, ext, content)
         IN IF made.kind = "raise"
            THEN [kind |-> "raise", text |-> None, error |-> <<>>,
                  exc |-> made.exc]
            ELSE [kind |-> "ok", text |-> made.text, error |-> <<>>,
                  exc |-> ""]

(***************************************************************************)
(* The corpus: a domain (class variables and meta variables) and, per row, *)
(* the class values Y and the meta values.  A variable name "base (n)" is  *)
(* the record [base, idx = n]; idx = 0 is the bare name.                   *)
(***************************************************************************)
VarName(base) == [base |-> base, idx |-> 0]

\* the names of corpus.domain: variables, then metas
DomainNames(c) ==
    {c.class_vars[i].name : i \in DOMAIN c.class_vars} \cup Range(c.meta_vars)

\* unicodedata.normalize("NFC", s): every character of the model's alphabet
\* is ASCII, which NFC leaves as it is
NFC(s) == s

\* list(set(...)): the orders in which a set may be iterated
Orders(S) == {o \in [1..Cardinality(S) -> S] : Range(o) = S}

\* DiscreteVariable.to_val(s): the index of s among the values
to_val(values, s) == CHOOSE i \in DOMAIN values : values[i] = s

\* the category column made for a single category too
HasCategoryColumn_single(text_categories) == Cardinality(text_categories) >= 1

\* len(text_categories) > 1
HasCategoryColumn(text_categories) == Cardinality(text_categories) > 1

\* ImportDocuments._create_corpus, values being the order in which the set of
\* categories came out
create_corpus(tds, values) ==
    LET text_categories == {tds[i].category : i \in DOMAIN tds}
        data == [i \in DOMAIN tds |->
                    <<NFC(tds[i].name), NFC(tds[i].path), NFC(tds[i].content)>>]
        category_data == [i \in DOMAIN tds |-> to_val(values, tds[i].category)]
        classed == HasCategoryColumn(text_categories)
    IN IF Len(data) = 0 THEN None
       ELSE [class_vars |-> IF classed
                            THEN <<[name |-> VarName("category"),
                                    values |-> values]>>
                            ELSE <<>>,
             meta_vars |-> <<VarName("name"), VarName("path"),
                             VarName("content")>>,
             Y |-> [i \in DOMAIN tds |->
                      IF classed THEN <<category_data[i]>> ELSE <<>>],
             metas |-> data,
             title |-> VarName("name"),
             text_features |-> <<VarName("content")>>]

\* Orange's get_unique_names(domain, proposed): proposed when no variable is
\* named proposed or "proposed (n)", else "proposed (m + 1)" for the largest
\* such n (0 for the bare name)
get_unique_names(names, proposed) ==
    LET ind == {n.idx : n \in {m \in names : m.base = proposed}}
    IN IF ind = {} THEN VarName(proposed)
       ELSE [base |-> proposed,
             idx |-> (CHOOSE i \in ind : \A j \in ind : j <= i) + 1]

\* corpus.add_column(StringVariable(name), values, to_metas=True)
add_column(c, name, values) ==
    [c EXCEPT !.meta_vars = Append(@, name),
              !.metas = [r \in DOMAIN @ |-> Append(@[r], values[r])]]

\* self.startdir + value, cell by cell: a missing cell stays missing
StrAdd(prefix, v) == IF v = NaN THEN NaN ELSE prefix \o v

\* duplicated(keep="last"): the last row of a key is the one kept
duplicated_keep_last(index, i) ==
    \E j \in (i + 1)..Len(index) : index[j] = index[i]

\* df.index.duplicated(keep="first")
duplicated(index, i) == \E j \in 1..(i - 1) : index[j] = index[i]

RECURSIVE add_columns(_, _, _)
\* the loop over filtered.columns
add_columns(c, columns, filtered) ==
    IF columns = <<>> THEN c
    ELSE add_columns(
             add_column(c, get_unique_names(DomainNames(c), Head(columns)),
                        [r \in DOMAIN filtered |-> filtered[r][Head(columns)]]),
             Tail(columns), filtered)

\* ImportDocuments._add_metadata(corpus)
add_metadata(c, meta, root) ==
    IF c = None
    THEN [kind |-> "raise", exc |-> "AttributeError", corpus |-> None]
    ELSE IF \/ VarName("path") \notin DomainNames(c)
            \/ meta = None
            \/ META_DATA_FILE_KEY \notin Range(meta.columns)
    THEN [kind |-> "ok", exc |-> "", corpus |-> c]
    ELSE LET index == [i \in DOMAIN meta.rows |->
                          StrAdd(root, meta.rows[i][META_DATA_FILE_KEY])]
             kept == IF \E i \in DOMAIN index : duplicated(index, i)
                     THEN SetToSeq({i \in DOMAIN index : ~duplicated(index, i)})
                     ELSE [i \in DOMAIN index |-> i]
             pos == CHOOSE i \in DOMAIN c.meta_vars :
                        c.meta_vars[i] = VarName("path")
             path_column == [r \in DOMAIN c.metas |-> c.metas[r][pos]]
             missing == [col \in Range(meta.columns) |-> NaN]
             \* df.reindex(path_column)
             filtered == [r \in DOMAIN path_column |->
                            IF \E i \in Range(kept) : index[i] = path_column[r]
                            THEN meta.rows[CHOOSE i \in Range(kept) :
                                               index[i] = path_column[r]]
                            ELSE missing]
         IN [kind |-> "ok", exc |-> "",
             corpus |-> add_columns(c, meta.columns, filtered)]

(***************************************************************************)
(* ImportDocuments: the state of one pipeline object and of its run().     *)
(***************************************************************************)
VARIABLES
    startdir,        \* self.startdir
    is_url,          \* self._is_url
    has_sink,        \* self._report_progress is not None
    fs,              \* the files that exist under the root (ids of Files)
    pc,              \* where run() is
    cancelled,       \* self.cancelled
    paths,           \* the paths of the scan being looped over
    idx,             \* the position of the loop in paths
    text_data,       \* _read_text_data's text_data
    errors,          \* the errors list of the running phase
    batch,           \* _read_text_data's batch
    meta_dfs,        \* _read_meta_data's meta_dfs
    self_text_data,  \* self._text_data
    self_meta_data,  \* self._meta_data
    errors_text,     \* run's errors_text
    errors_meta,     \* run's errors_meta
    corpus,          \* run's corpus
    result,          \* how run() ended: what it returned or raised
    reports,         \* the notifications the progress sink received
    tmpfiles,        \* the temporary files that exist, by number of the read
    readlog,         \* every reader.read() made so far, in order
    listing,         \* how the document scan went
    candidates,      \* the paths the document scan returned
    cancel_seen,     \* the phase whose check found self.cancelled set
    scanned          \* the last direct call of scan(): arguments and result

vars ==
    <<startdir, is_url, has_sink, fs, pc, cancelled, paths, idx, text_data,
      errors, batch, meta_dfs, self_text_data, self_meta_data, errors_text,
      errors_meta, corpus, result, reports, tmpfiles, readlog, listing,
      candidates, cancel_seen, scanned>>

config == <<startdir, is_url, has_sink, fs>>

\* the start directories and modes given to the constructor
Configs ==
    { [startdir |-> <<"r","o","o","t">>, is_url |-> FALSE],
      [startdir |-> <<".">>, is_url |-> FALSE],
      [startdir |-> <<"h","t","t","p",":","/","/","h">>, is_url |-> TRUE],
      [startdir |-> <<"h","t","t","p",":","/","/","h","/">>, is_url |-> TRUE] }

\* ImportDocuments.__init__: the start directory ends in a separator
init_startdir(dir, url) ==
    IF url /\ ~EndsWith(dir, <<"/">>) THEN dir \o <<"/">>
    ELSE IF ~url THEN PathJoin(dir, <<>>)
    ELSE dir

\* ["*.{}".format(fmt.lower()) for fmt in self.formats]
TextPatterns ==
    [i \in DOMAIN DefaultFormats |-> <<"*", ".">> \o Lower(DefaultFormats[i])]

\* ["*.csv", "*.yaml", "*.yml"]
MetaPatterns ==
    << <<"*",".","c","s","v">>, <<"*",".","y","a","m","l">>,
       <<"*",".","y","m","l">> >>

\* the file names a response may suggest for path: its own, or one that
\* has no extension
SuggestedNames(path) == {PathName(path), <<"d","a","t","a">>}

\* the file a scanned path names
FileOf(path) == CHOOSE k \in fs : PathOf(startdir, is_url, k) = path

\* "reader = Reader.get_reader(path) if not self._is_url else UrlReader(path);
\* text, error = reader.read()": every way it can go for path
ReadOutcomes(path) ==
    IF is_url
    THEN { [reader |-> "UrlReader", path |-> path,
            fetch |-> UrlReader_read_file(sug, fetch, parses),
            res |-> Reader_read("UrlReader", path, Content(FileOf(path)),
                                UrlReader_read_file(sug, fetch, parses).ok)] :
           sug \in SuggestedNames(path),
           fetch \in {"open_fails", "write_fails", "ok"},
           parses \in BOOLEAN }
    ELSE { [reader |-> get_reader(path), path |-> path,
            fetch |-> [ok |-> FALSE, tmp_made |-> FALSE, tmp_left |-> FALSE,
                       delegate |-> "none"],
            res |-> Reader_read(get_reader(path), path, Content(FileOf(path)),
                                read_file_ok(get_reader(path), parses))] :
           parses \in BOOLEAN }

\* the files a pipeline run is checked over: the first RunFiles of Files
RunFileIds == {k \in FileIds : k <= RunFiles}

\* the state after ImportDocuments(startdir, is_url, ...) over a tree drawn
\* from the files ids
Constructed(ids) ==
    /\ \E cfg \in Configs :
          /\ startdir = init_startdir(cfg.startdir, cfg.is_url)
          /\ is_url = cfg.is_url
    /\ has_sink \in BOOLEAN
    /\ fs \in {S \in SUBSET ids : Cardinality(S) <= MaxFiles}
    /\ pc = "start"
    /\ cancelled = FALSE
    /\ paths = <<>>
    /\ idx = 0
    /\ text_data = <<>>
    /\ errors = <<>>
    /\ batch = <<>>
    /\ meta_dfs = <<>>
    /\ self_text_data = <<>>
    /\ self_meta_data = None
    /\ errors_text = <<>>
    /\ errors_meta = <<>>
    /\ corpus = None
    /\ result = [kind |-> "none", exc |-> "", corpus |-> None, errors |-> <<>>]
    /\ reports = <<>>
    /\ tmpfiles = {}
    /\ readlog = <<>>
    /\ listing = "none"
    /\ candidates = <<>>
    /\ cancel_seen = "none"
    /\ scanned = None

Init == Constructed(RunFileIds)

\* an exception leaves run()
Raise(exc) ==
    /\ pc' = "raised"
    /\ result' = [kind |-> "raised", exc |-> exc, corpus |-> None,
                  errors |-> <<>>]

\* the check for an empty scan left out
NoDocuments_unchecked(n_paths) == FALSE

\* n_paths == 0
NoDocuments(n_paths) == n_paths = 0

\* run() is called: _read_text_data scans for documents and raises
\* NoDocumentsException when there is none
ScanText ==
    /\ pc = "start"
    /\ \E connected \in (IF is_url THEN BOOLEAN ELSE {TRUE}) :
          LET found == IF is_url
                       THEN scan_url(fs, startdir, TextPatterns, connected)
                       ELSE scan(fs, startdir, TextPatterns)
          IN /\ paths' = found
             /\ candidates' = found
             /\ listing' = IF ~is_url THEN "walked"
                           ELSE IF connected THEN "listed"
                           ELSE "connection_error"
             /\ IF NoDocuments(Len(found))
                THEN Raise("NoDocumentsException") /\ idx' = 0
                ELSE pc' = "read_text" /\ idx' = 1 /\ UNCHANGED result
    /\ text_data' = <<>>
    /\ errors' = <<>>
    /\ batch' = <<>>
    /\ UNCHANGED <<scanned, config, cancelled, meta_dfs, self_text_data,
                   self_meta_data,
                   errors_text, errors_meta, corpus, reports, tmpfiles,
                   readlog, cancel_seen>>

\* the entry of readlog for one read
LogEntry(o, phase) ==
    [path |-> o.path, reader |-> o.reader, delegate |-> o.fetch.delegate,
     outcome |-> o.res.kind, text |-> o.res.text, error |-> o.res.error,
     phase |-> phase, tmp_made |-> o.fetch.tmp_made,
     tmp_left |-> o.fetch.tmp_left]

\* len(batch) == 1 and self._report_progress is not None
ShouldReport(b, sink) == Len(b) = 1 /\ sink

\* namespace(progress=len(text_data) / n_paths, lastpath=path, batch=batch);
\* done is the number of documents read when the notification is made
Notification(tds, n_paths, path, b, done) ==
    [progress |-> <<Len(tds), n_paths>>, lastpath |-> path,
     batch |-> [i \in DOMAIN b |-> tds], done |-> done]

\* one turn of _read_text_data's loop
ReadText ==
    /\ pc = "read_text"
    /\ \E o \in ReadOutcomes(paths[idx]) :
          LET report == ShouldReport(batch, has_sink)
              batch1 == IF report THEN <<>> ELSE batch
              read_ok == o.res.kind = "ok"
              tds == IF read_ok THEN Append(text_data, o.res.text)
                     ELSE text_data
              errs == IF o.res.kind = "error" THEN Append(errors, o.res.error)
                      ELSE errors
          IN /\ reports' = IF report
                           THEN Append(reports,
                                       Notification(text_data, Len(paths),
                                                    paths[idx], batch,
                                                    Len(readlog)))
                           ELSE reports
             /\ readlog' = Append(readlog, LogEntry(o, "text"))
             /\ tmpfiles' = IF o.fetch.tmp_left
                            THEN tmpfiles \cup {Len(readlog) + 1}
                            ELSE tmpfiles
             /\ text_data' = tds
             /\ errors' = errs
             /\ batch' = IF read_ok THEN Append(batch1, "text_data")
                         ELSE batch1
             /\ IF o.res.kind = "raise"
                THEN \* make_text_data raised: the exception leaves read()
                     /\ Raise(o.res.exc)
                     /\ UNCHANGED <<idx, self_text_data, errors_text,
                                    cancel_seen>>
                ELSE IF cancelled
                THEN \* "return": run() cannot unpack None
                     /\ Raise("TypeError")
                     /\ cancel_seen' = "text"
                     /\ UNCHANGED <<idx, self_text_data, errors_text>>
                ELSE IF idx = Len(paths)
                THEN \* "return text_data, errors"
                     /\ self_text_data' = tds
                     /\ errors_text' = errs
                     /\ pc' = "scan_meta"
                     /\ UNCHANGED <<idx, result, cancel_seen>>
                ELSE /\ idx' = idx + 1
                     /\ UNCHANGED <<pc, result, self_text_data, errors_text,
                                    cancel_seen>>
    /\ UNCHANGED <<scanned, candidates, config, cancelled,
                   paths, meta_dfs, self_meta_data,
                   errors_meta, corpus, listing>>

\* "pd.concat(meta_dfs) if meta_dfs else None"
MetaTable(dfs) == IF dfs # <<>> THEN concat(dfs) ELSE None

\* _read_meta_data scans for metadata files; with none the loop is skipped
ScanMeta ==
    /\ pc = "scan_meta"
    /\ \E connected \in (IF is_url THEN BOOLEAN ELSE {TRUE}) :
          LET found == IF is_url
                       THEN scan_url(fs, startdir, MetaPatterns, connected)
                       ELSE scan(fs, startdir, MetaPatterns)
          IN /\ paths' = found
             /\ IF Len(found) = 0
                THEN /\ self_meta_data' = MetaTable(<<>>)
                     /\ errors_meta' = <<>>
                     /\ pc' = "create_corpus"
                     /\ idx' = 0
                ELSE /\ pc' = "read_meta"
                     /\ idx' = 1
                     /\ UNCHANGED <<self_meta_data, errors_meta>>
    /\ meta_dfs' = <<>>
    /\ errors' = <<>>
    /\ UNCHANGED <<scanned, candidates, config, cancelled,
                   text_data, batch, self_text_data,
                   errors_text, corpus, result, reports, tmpfiles, readlog,
                   listing, cancel_seen>>

\* one turn of _read_meta_data's loop
ReadMeta ==
    /\ pc = "read_meta"
    /\ \E o \in ReadOutcomes(paths[idx]) :
          LET read_ok == o.res.kind = "ok"
              content == IF IsDict(o.res.text.content)
                         THEN DataFrameOfDict(o.res.text.content)
                         ELSE o.res.text.content
              dfs == IF read_ok THEN Append(meta_dfs, content) ELSE meta_dfs
              errs == IF o.res.kind = "error" THEN Append(errors, o.res.error)
                      ELSE errors
          IN /\ readlog' = Append(readlog, LogEntry(o, "meta"))
             /\ tmpfiles' = IF o.fetch.tmp_left
                            THEN tmpfiles \cup {Len(readlog) + 1}
                            ELSE tmpfiles
             /\ meta_dfs' = dfs
             /\ errors' = errs
             /\ IF o.res.kind = "raise"
                THEN /\ Raise(o.res.exc)
                     /\ UNCHANGED <<idx, self_meta_data, errors_meta,
                                    cancel_seen>>
                ELSE IF cancelled
                THEN /\ Raise("TypeError")
                     /\ cancel_seen' = "meta"
                     /\ UNCHANGED <<idx, self_meta_data, errors_meta>>
                ELSE IF idx = Len(paths)
                THEN /\ self_meta_data' = MetaTable(dfs)
                     /\ errors_meta' = errs
                     /\ pc' = "create_corpus"
                     /\ UNCHANGED <<idx, result, cancel_seen>>
                ELSE /\ idx' = idx + 1
                     /\ UNCHANGED <<pc, result, self_meta_data, errors_meta,
                                    cancel_seen>>
    /\ UNCHANGED <<scanned, candidates, config, cancelled,
                   paths, text_data, batch, self_text_data,
                   errors_text, corpus, reports, listing>>

\* corpus = self._create_corpus()
CreateCorpus ==
    /\ pc = "create_corpus"
    /\ \E values \in Orders({self_text_data[i].category :
                                i \in DOMAIN self_text_data}) :
          corpus' = create_corpus(self_text_data, values)
    /\ pc' = "add_metadata"
    /\ UNCHANGED <<scanned, candidates, config, cancelled,
                   paths, idx, text_data, errors, batch,
                   meta_dfs, self_text_data, self_meta_data, errors_text,
                   errors_meta, result, reports, tmpfiles, readlog, listing,
                   cancel_seen>>

\* corpus = self._add_metadata(corpus); return corpus, errors_text + errors_meta
AddMetadata ==
    /\ pc = "add_metadata"
    /\ LET joined == add_metadata(corpus, self_meta_data, startdir)
       IN IF joined.kind = "raise"
          THEN Raise(joined.exc) /\ UNCHANGED corpus
          ELSE /\ corpus' = joined.corpus
               /\ pc' = "done"
               /\ result' = [kind |-> "returned", exc |-> "",
                             corpus |-> joined.corpus,
                             errors |-> errors_text \o errors_meta]
    /\ UNCHANGED <<scanned, candidates, config, cancelled,
                   paths, idx, text_data, errors, batch,
                   meta_dfs, self_text_data, self_meta_data, errors_text,
                   errors_meta, reports, tmpfiles, readlog, listing,
                   cancel_seen>>

\* the caller sets self.cancelled while run() has not ended
Cancel ==
    /\ pc \notin {"done", "raised"}
    /\ ~cancelled
    /\ cancelled' = TRUE
    /\ UNCHANGED <<scanned, candidates, config, pc,
                   paths, idx, text_data, errors, batch, meta_dfs,
                   self_text_data, self_meta_data, errors_text, errors_meta,
                   corpus, result, reports, tmpfiles, readlog, listing,
                   cancel_seen>>

Next ==
    \/ ScanText
    \/ ReadText
    \/ ScanMeta
    \/ ReadMeta
    \/ CreateCorpus
    \/ AddMetadata
    \/ Cancel

Spec == Init /\ [][Next]_vars

(***************************************************************************)
(* Reader.get_reader and read() called directly on a path, as a caller of  *)
(* the registry does.                                                      *)
(***************************************************************************)
DispatchDirs == { <<>>, <<"d","/">>, <<".","h","/">> }

DispatchStems == { <<>>, <<"a">>, <<"a",".","b">>, <<".","a">> }

DispatchSuffixes ==
    { <<>>, <<".">>, <<".","t","x","t">>, <<".","T","X","T">>,
      <<".","T","x","t">>, <<".","d","o","c","x">>, <<".","o","d","t">>,
      <<".","p","d","f">>, <<".","x","m","l">>, <<".","X","m","l">>,
      <<".","c","s","v">>, <<".","y","a","m","l">>, <<".","y","m","l">>,
      <<".","u","r","l">>, <<".","d","a","t">> }

DispatchPaths ==
    { d \o st \o su : d \in DispatchDirs, st \in DispatchStems,
                      su \in DispatchSuffixes }

\* reader = Reader.get_reader(path); reader.read()
Dispatch ==
    /\ pc = "start"
    /\ readlog = <<>>
    /\ \E path \in DispatchPaths, parses \in BOOLEAN,
          fetch \in {"open_fails", "write_fails", "ok"} :
          LET reader == get_reader(path)
              fetched == IF reader = "UrlReader"
                         THEN UrlReader_read_file(PathName(path), fetch, parses)
                         ELSE [ok |-> read_file_ok(reader, parses),
                               tmp_made |-> FALSE, tmp_left |-> FALSE,
                               delegate |-> "none"]
              o == [reader |-> reader, path |-> path, fetch |-> fetched,
                    res |-> Reader_read(reader, path, [text |-> 0], fetched.ok)]
          IN /\ readlog' = <<LogEntry(o, "direct")>>
             /\ tmpfiles' = IF fetched.tmp_left THEN {1} ELSE {}
    /\ UNCHANGED <<scanned, config, pc, cancelled, paths, idx, text_data,
                   errors, batch,
                   meta_dfs, self_text_data, self_meta_data, errors_text,
                   errors_meta, corpus, result, reports, listing, candidates,
                   cancel_seen>>

InitDispatch == Init /\ fs = {}

SpecDispatch == InitDispatch /\ [][Dispatch]_vars

(***************************************************************************)
(* The local scan on its own: ImportDocuments.scan is a static method, and *)
(* is called here with the start directory of a local object and with any  *)
(* of a set of include pattern lists.                                      *)
(***************************************************************************)
\* the include patterns tried: "*", "*.txt", "*.dat" and "*.TXT"
ScanPatterns ==
    { <<"*">>, <<"*",".","t","x","t">>, <<"*",".","d","a","t">>,
      <<"*",".","T","X","T">> }

\* the include_patterns arguments: no pattern, one, or two
ScanIncludes ==
    {<<>>} \cup {<<p>> : p \in ScanPatterns}
           \cup {<<p, q>> : p \in ScanPatterns, q \in ScanPatterns}

\* paths = ImportDocuments.scan(topdir, include_patterns)
Scan ==
    /\ pc = "start"
    /\ scanned = None
    /\ \E include_patterns \in ScanIncludes :
          scanned' = [topdir |-> startdir,
                      include_patterns |-> include_patterns,
                      paths |-> scan(fs, startdir, include_patterns)]
    /\ UNCHANGED <<config, pc, cancelled, paths, idx, text_data, errors, batch,
                   meta_dfs, self_text_data, self_meta_data, errors_text,
                   errors_meta, corpus, result, reports, tmpfiles, readlog,
                   listing, candidates, cancel_seen>>

InitScan == Constructed(FileIds) /\ ~is_url /\ ~has_sink

SpecScan == InitScan /\ [][Scan]_vars

(***************************************************************************)
(* The claims.                                                             *)
(***************************************************************************)
Ended == pc \in {"done", "raised"}

\* the reads of the document phase, in order
TextReads == SelectSeq(readlog, LAMBDA e : e.phase = "text")

\* C1: in an uncancelled run over N >= 1 candidates of which at least one
\* was extracted, every candidate is read, each successful read is exactly one
\* corpus row and each failed read exactly one text error, both in scan order,
\* so that rows + text errors = N.
C1_EveryCandidateRowOrError ==
    (/\ Ended
     /\ ~cancelled
     /\ Len(candidates) >= 1
     /\ \E i \in DOMAIN readlog :
           readlog[i].phase = "text" /\ readlog[i].outcome # "error")
    => /\ result.kind = "returned"
       /\ result.corpus # None
       /\ LET good == SelectSeq(TextReads, LAMBDA e : e.outcome = "ok")
              bad == SelectSeq(TextReads, LAMBDA e : e.outcome = "error")
              rows == result.corpus.metas
          IN /\ Len(TextReads) = Len(candidates)
             /\ \A i \in DOMAIN candidates : TextReads[i].path = candidates[i]
             /\ Len(rows) = Len(good)
             /\ \A r \in DOMAIN rows : rows[r][2] = good[r].path
             /\ errors_text = [i \in DOMAIN bad |-> bad[i].error]
             /\ Len(rows) + Len(errors_text) = Len(candidates)

\* C2: when the document scan returns no path (nothing matches, or the remote
\* listing failed and came back empty), run() raises NoDocumentsException
\* before any reader is made or any file read, and returns nothing.
C2_NoDocumentsIsFatal ==
    /\ listing = "connection_error" => candidates = <<>>
    /\ (listing # "none" /\ candidates = <<>>)
       => /\ pc = "raised"
          /\ result.kind = "raised"
          /\ result.exc = "NoDocumentsException"
          /\ readlog = <<>>
          /\ corpus = None
          /\ errors_text = <<>> /\ errors_meta = <<>>

\* C2's case: the remote listing failed although documents exist remotely
C2_Witness ==
    /\ listing = "connection_error"
    /\ \E k \in fs : get_reader(Files[k].name) = "TxtReader"
    /\ result.exc = "NoDocumentsException"

\* C3: once a check finds the cancellation flag set, run() ends by returning
\* (not by an exception), with no corpus and no error list.
C3_CancelReturns ==
    cancel_seen # "none"
    => /\ result.kind = "returned"
       /\ result.corpus = None
       /\ result.errors = <<>>

\* C4: when every candidate failed to read and the run is not cancelled (and
\* no read raised), run() returns None for the corpus and the text errors,
\* one per candidate, followed by the metadata errors; no exception leaves it.
C4_AllFailedReturnsNone ==
    (/\ Ended
     /\ ~cancelled
     /\ Len(candidates) >= 1
     /\ \A i \in DOMAIN readlog : readlog[i].outcome = "error"
                                  \/ readlog[i].phase = "meta"
     /\ \A i \in DOMAIN readlog : readlog[i].outcome # "raise")
    => /\ result.kind = "returned"
       /\ result.corpus = None
       /\ Len(errors_text) = Len(candidates)
       /\ result.errors = errors_text \o errors_meta

\* C5: no temporary file made by a remote read exists once the read is over.
C5_NoTempFileRemains ==
    /\ tmpfiles = {}
    /\ \A i \in DOMAIN readlog : readlog[i].tmp_made => ~readlog[i].tmp_left

\* C6: with a progress sink, every successfully read document, the last
\* candidate included, is followed by exactly one notification (made after it
\* and before the next read) by the time run() has returned.
C6_EverySuccessReported ==
    (has_sink /\ pc = "done")
    => \A i \in DOMAIN TextReads :
          TextReads[i].outcome = "ok"
          => Cardinality({j \in DOMAIN reports : reports[j].done = i}) = 1

\* C7: every notification carries progress = candidates completed so far
\* (successful or failed) / candidates, within [0,1] and never decreasing, and
\* lastpath = the path processed last.
C7_ProgressIsCompletedFraction ==
    \A j \in DOMAIN reports :
        /\ reports[j].done >= 1
        /\ reports[j].progress = <<reports[j].done, Len(candidates)>>
        /\ reports[j].progress[1] <= reports[j].progress[2]
        /\ j > 1 => reports[j - 1].progress[1] <= reports[j].progress[1]
        /\ reports[j].lastpath = candidates[reports[j].done]

\* C8: get_reader returns the first registered reader whose ext holds the
\* exact-case final suffix of the path; for any other suffix the base Reader,
\* whose read() returns (None, file name).
C8_DispatchOnExactSuffix ==
    \A i \in DOMAIN readlog :
        readlog[i].phase = "direct"
        => LET e == readlog[i]
               suffix == Suffix(e.path)
               having == {n \in DOMAIN Registry :
                             \E x \in DOMAIN ReaderExt(Registry[n]) :
                                 ReaderExt(Registry[n])[x] = suffix}
           IN IF having # {}
              THEN /\ e.reader = Registry[CHOOSE n \in having :
                                              \A m \in having : n <= m]
                   /\ suffix \in Range(ReaderExt(e.reader))
              ELSE /\ e.reader = "Reader"
                   /\ e.outcome = "error"
                   /\ e.text = None
                   /\ e.error = PathName(e.path)

\* C8's case: an upper-case suffix of a supported format gets the base Reader
C8_Witness ==
    \E i \in DOMAIN readlog :
        /\ readlog[i].phase = "direct"
        /\ Suffix(readlog[i].path) = <<".","T","X","T">>
        /\ readlog[i].reader = "Reader"
        /\ readlog[i].outcome = "error"

\* the key of metadata row i: the scan root followed by its "Text file" value
MetaKey(i) ==
    IF self_meta_data.rows[i][META_DATA_FILE_KEY] = NaN THEN NaN
    ELSE startdir \o self_meta_data.rows[i][META_DATA_FILE_KEY]

\* run() returned after joining the metadata table onto the corpus
Joined ==
    /\ pc = "done"
    /\ self_meta_data # None
    /\ META_DATA_FILE_KEY \in Range(self_meta_data.columns)

\* C9: the join keeps the corpus rows in their order, adds one column per
\* metadata column under a name not used before, and gives each row the
\* values of the first metadata row whose key is the row's path, or missing
\* values when no key is.
C9_MetadataJoin ==
    Joined
    => LET c == result.corpus
           cols == self_meta_data.columns
           firstrow(path) == CHOOSE i \in DOMAIN self_meta_data.rows :
                                /\ MetaKey(i) = path
                                /\ \A j \in 1..(i - 1) : MetaKey(j) # path
       IN /\ Len(c.metas) = Len(self_text_data)
          /\ \A r \in DOMAIN c.metas :
                /\ c.metas[r][1] = self_text_data[r].name
                /\ c.metas[r][2] = self_text_data[r].path
                /\ c.metas[r][3] = self_text_data[r].content
          /\ Len(c.meta_vars) = 3 + Len(cols)
          /\ \A j \in DOMAIN cols :
                /\ c.meta_vars[3 + j].base = cols[j]
                /\ \A m \in 1..(2 + j) : c.meta_vars[m] # c.meta_vars[3 + j]
                /\ \A m \in DOMAIN c.class_vars :
                      c.class_vars[m].name # c.meta_vars[3 + j]
          /\ \A r \in DOMAIN c.metas : \A j \in DOMAIN cols :
                c.metas[r][3 + j] =
                    IF \E i \in DOMAIN self_meta_data.rows :
                          MetaKey(i) = c.metas[r][2]
                    THEN self_meta_data.rows[firstrow(c.metas[r][2])][cols[j]]
                    ELSE NaN

\* C9's case: two metadata rows share the key of a corpus row, and another
\* corpus row has no metadata row
C9_Witness ==
    /\ Joined
    /\ \E r \in DOMAIN result.corpus.metas :
          \E i, j \in DOMAIN self_meta_data.rows :
              /\ i < j
              /\ MetaKey(i) = result.corpus.metas[r][2]
              /\ MetaKey(j) = result.corpus.metas[r][2]
    /\ \E r \in DOMAIN result.corpus.metas :
          \A i \in DOMAIN self_meta_data.rows :
              MetaKey(i) # result.corpus.metas[r][2]

\* C10: the corpus has a category column exactly when the documents carry
\* more than one category; its values are then exactly those categories and
\* each row's class value is its document's category.
C10_CategoryColumn ==
    corpus # None
    => LET cats == {self_text_data[i].category : i \in DOMAIN self_text_data}
       IN /\ (corpus.class_vars # <<>>) <=> (Cardinality(cats) > 1)
          /\ Len(corpus.class_vars) <= 1
          /\ Len(corpus.Y) = Len(self_text_data)
          /\ \A m \in DOMAIN corpus.meta_vars :
                corpus.meta_vars[m].base # "category"
          /\ corpus.class_vars = <<>>
                => \A r \in DOMAIN corpus.Y : corpus.Y[r] = <<>>
          /\ corpus.class_vars # <<>>
                => /\ corpus.class_vars[1].name = VarName("category")
                   /\ Range(corpus.class_vars[1].values) = cats
                   /\ Len(corpus.class_vars[1].values) = Cardinality(cats)
                   /\ \A r \in DOMAIN corpus.Y :
                         corpus.class_vars[1].values[corpus.Y[r][1]]
                             = self_text_data[r].category

\* C10's case: three documents in two categories
C10_Witness ==
    /\ corpus # None
    /\ Len(corpus.metas) = 3
    /\ Len(corpus.class_vars) = 1
    /\ Len(corpus.class_vars[1].values) = 2

(***************************************************************************)
(* C11.  The local scan never descends into a directory whose name matches *)
(* ".*", at any depth below the root: no returned path has such a          *)
(* directory as a component below the root, and a file that lies under no  *)
(* such directory is returned, once, if and only if its lowercased name    *)
(* matches at least one include pattern and no exclude pattern.            *)
(***************************************************************************)
\* the name matches ".*"
C11_Hidden(name) == name # <<>> /\ Head(name) = "."

\* the directory components of a returned path below the top directory
C11_DirsBelow(topdir, path) ==
    LET below == Parts(SubSeq(path, Len(topdir) + 1, Len(path)))
    IN SubSeq(below, 1, Len(below) - 1)

\* the files of the tree the scan has to return for the patterns given: a
\* pattern "*" + s matches the names that end in s
C11_Expected(include_patterns) ==
    {k \in fs :
        /\ \A i \in DOMAIN Files[k].dir : ~C11_Hidden(Files[k].dir[i])
        /\ ~C11_Hidden(Lower(Files[k].name))
        /\ \E j \in DOMAIN include_patterns :
              EndsWith(Lower(Files[k].name), Tail(include_patterns[j]))}

C11_ScanSkipsHidden ==
    scanned # None =>
        LET want == C11_Expected(scanned.include_patterns)
        IN /\ \A i \in DOMAIN scanned.paths :
                 \A c \in Range(C11_DirsBelow(scanned.topdir,
                                              scanned.paths[i])) :
                    ~C11_Hidden(c)
           /\ Range(scanned.paths)
                 = {PathOf(scanned.topdir, FALSE, k) : k \in want}
           /\ Len(scanned.paths) = Cardinality(want)

\* a tree with a hidden directory below catA, scanned for "*.txt": a.txt and
\* d.TXT of catA are returned, x.txt of catA/.h is not
C11_Witness ==
    /\ scanned # None
    /\ fs = {4, 6, 12}
    /\ scanned.include_patterns = << <<"*",".","t","x","t">> >>
    /\ Len(scanned.paths) = 2

(***************************************************************************)
(* C12.  No failure of one file leaves Reader.read(): every read returns   *)
(* either (record, empty error) or (None, the file name), and an           *)
(* uncancelled run over at least one candidate does not end with the       *)
(* exception of a single read.                                             *)
(***************************************************************************)
C12_ReadNeverRaises ==
    /\ \A i \in DOMAIN readlog :
          \/ /\ readlog[i].outcome = "ok"
             /\ readlog[i].text # None
             /\ readlog[i].error = <<>>
          \/ /\ readlog[i].outcome = "error"
             /\ readlog[i].text = None
             /\ readlog[i].error = PathName(readlog[i].path)
    /\ (Ended /\ ~cancelled /\ Len(candidates) >= 1)
          => ~(result.kind = "raised" /\ result.exc = "IndexError")

(***************************************************************************)
(* C13.  For every file that was extracted, make_text_data gives a record  *)
(* whose name is the stem of the file and whose category is the name of    *)
(* the directory the file lies in, or the "none" sentinel (in either       *)
(* spelling) when the path has no parent segment; it does not fail.        *)
(***************************************************************************)
C13_NameAndCategory ==
    \A i \in DOMAIN readlog :
        readlog[i].outcome # "error" =>
            /\ readlog[i].outcome = "ok"
            /\ readlog[i].text.name = Stem(readlog[i].path)
            /\ LET parts == ParentParts(readlog[i].path)
                   category == readlog[i].text.category
               IN IF parts = <<>>
                  THEN category \in {<<"n","o","n","e">>, <<"N","o","n","e">>}
                  ELSE category = parts[Len(parts)]

(***************************************************************************)
(* C14.  In local mode a scanned path is dispatched on its exact-case      *)
(* final suffix, whatever made the scanner keep it: a file kept only       *)
(* because its lowercased name matches an include pattern (a suffix with   *)
(* an upper-case letter) and a metadata file kept by "*.yml" are read by   *)
(* the fallback reader; each such read fails with the file name as label,  *)
(* the error list of its phase holds exactly the labels of the failed      *)
(* reads, one per read and in order, and no document record, corpus row    *)
(* or metadata table comes from such a file.                               *)
(***************************************************************************)
\* the scanner keeps the path for its lowercased name, or for "*.yml"
C14_KeptByScannerOnly(path) ==
    \/ Suffix(path) # Lower(Suffix(path))
    \/ Suffix(path) = <<".","y","m","l">>

\* the labels of the failed reads of a phase, in order
C14_Labels(phase) ==
    LET failed == SelectSeq(readlog, LAMBDA e : e.phase = phase
                                                /\ e.outcome = "error")
    IN [i \in DOMAIN failed |-> failed[i].error]

\* the reads of a phase that gave a record
C14_Records(phase) ==
    SelectSeq(readlog, LAMBDA e : e.phase = phase /\ e.outcome = "ok")

C14_FallbackForUnregisteredCase ==
    ~is_url =>
        /\ \A i \in DOMAIN readlog :
              (readlog[i].phase \in {"text", "meta"}
               /\ C14_KeptByScannerOnly(readlog[i].path))
              => /\ readlog[i].reader = "Reader"
                 /\ readlog[i].outcome = "error"
                 /\ readlog[i].text = None
                 /\ readlog[i].error = PathName(readlog[i].path)
        /\ pc = "read_text"
              => /\ errors = C14_Labels("text")
                 /\ \A i \in DOMAIN text_data :
                       ~C14_KeptByScannerOnly(text_data[i].path)
        /\ pc \in {"scan_meta", "read_meta", "create_corpus", "add_metadata",
                   "done"}
              => /\ errors_text = C14_Labels("text")
                 /\ \A i \in DOMAIN self_text_data :
                       ~C14_KeptByScannerOnly(self_text_data[i].path)
        /\ pc = "read_meta"
              => /\ errors = C14_Labels("meta")
                 /\ Len(meta_dfs) = Len(C14_Records("meta"))
        /\ pc \in {"create_corpus", "add_metadata", "done"}
              => /\ errors_meta = C14_Labels("meta")
                 /\ C14_Records("meta") = <<>> => self_meta_data = None
        /\ pc = "done"
              => /\ result.errors = C14_Labels("text") \o C14_Labels("meta")
                 /\ Len(result.corpus.metas) = Len(C14_Records("text"))
                 /\ \A r \in DOMAIN result.corpus.metas :
                       ~C14_KeptByScannerOnly(result.corpus.metas[r][2])

\* a local run over catA/a.txt, catA/d.TXT and m.yml returns a corpus of one
\* row and the two error entries d.TXT and m.yml
C14_Witness ==
    /\ ~is_url
    /\ pc = "done"
    /\ fs = {3, 4, 6}
    /\ result.errors = << <<"d",".","T","X","T">>, <<"m",".","y","m","l">> >>
    /\ Len(result.corpus.metas) = 1
    /\ \E i \in DOMAIN readlog, j \in DOMAIN readlog :
          /\ readlog[i].path = PathOf(startdir, FALSE, 6)
          /\ readlog[i].reader = "Reader"
          /\ readlog[j].path = PathOf(startdir, FALSE, 3)
          /\ readlog[j].reader = "Reader"

====
